---- MODULE Spec2Model ----
(***************************************************************************)
(* A model of the Philips Hue skill (src/__init__.py): the skill object's  *)
(* session state (address, credential, bridge handle, default group,       *)
(* group and scene caches), the startup operation initialize, the connect  *)
(* operation _connect_to_bridge with its registration loop, and the        *)
(* registered command handlers (get_group around handle_*_intent).         *)
(* The bridge, the network, discovery and the host are the environment:    *)
(* each call into them draws its outcome from a small set.                 *)
(* Spec is the whole skill; BrightnessSpec runs the brightness handler     *)
(* over every percentage, and FuzzySpec applies _find_fuzzy to the         *)
(* mappings and queries drawn for it.                                      *)
(***************************************************************************)
EXTENDS Integers, Sequences, FiniteSets, TLC

VARIABLES
    settings,           \* host settings: ip, username, default_group, verbose
    file,               \* content of the persisted 'username' file, or None
    username,           \* self.username
    ip,                 \* self.ip
    bridge,             \* self.bridge: the Bridge object's address and user
    default_group,      \* self.default_group: a Group and the Bridge it holds
    groups_to_ids_map,  \* self.groups_to_ids_map, an insertion-ordered dict
    scenes_to_ids_map,  \* self.scenes_to_ids_map, group key -> dict
    pc,                 \* "loaded", "idle", "register" or "dead"
    i,                  \* the loop variable of _register_with_bridge
    ack,                \* acknowledge_successful_connection while a connect runs
    spoken,             \* dialogs spoken by the current (or last) operation
    op,                 \* what the current (or last) operation did
    refreshed,          \* the refresh ran to completion for the object in self.bridge
    bridges             \* the number of Bridge objects constructed so far

vars == <<settings, file, username, ip, bridge, default_group, groups_to_ids_map,
          scenes_to_ids_map, pc, i, ack, spoken, op, refreshed, bridges>>

----------------------------------------------------------------------------
(* Bounds of the model. *)

\* Bridge objects constructed in one run.
MaxBridges == 2
\* Registration attempts followed in one run of the loop.
MaxAttempts == 31
\* The highest percentage of a brightness command.
MaxPercent == 100
\* The names in a candidate mapping handed to _find_fuzzy.
MaxCandidates == 3

(* Program constants. *)

\* while i < 30
RegistrationLimit == 30
\* if confidence < 60
ConfidenceCutoff == 60

----------------------------------------------------------------------------
(* Values. *)

None == "None"

\* self.bridge = None; a Bridge object holds an address and a user.
NoBridge == [ip |-> None, username |-> None]
\* self.default_group = None; a Group holds a group id and the Bridge object it
\* was built on: current tells whether that is (still) the object in self.bridge.
NoGroup == [group_id |-> -1, current |-> FALSE]
\* Group(self.bridge, group_id)
Group(group_id) == [group_id |-> group_id, current |-> TRUE]
\* the key None of scenes_to_ids_map
NoneKey == -1

ConfiguredIp == "10.0.0.2"
DiscoveredIps == {"10.0.0.7"}
ConfiguredUser == "cfguser"
StoredFiles == {None, "olduser\n"}
\* credentials the bridge issues on registration
IssuedUsers == {"newuser"}

GroupIds == {0, 1, 2}
SceneKeys == GroupIds \cup {NoneKey}

\* bridge.get_group(): id -> {'name': ...}, in the order of the reply
GroupReports ==
    { << <<"1", "Kitchen">>, <<"2", "Den">> >>,
      << <<"2", "Kitchen">> >> }

\* bridge.get_scene(): id -> {'name': ..., 'group': ...}
SceneReports ==
    { << [id |-> "s1", name |-> "Relax", group |-> "1"],
         [id |-> "s2", name |-> "Relax", group |-> None] >>,
      << [id |-> "s3", name |-> "Relax", group |-> None],
         [id |-> "s4", name |-> "Read", group |-> "2"] >> }

\* str.lower() on the names in use
Lower(s) ==
    CASE s = "Kitchen" -> "kitchen"
      [] s = "Den"     -> "den"
      [] s = "Relax"   -> "relax"
      [] s = "Read"    -> "read"
      [] OTHER         -> s

\* int(s) succeeds
IsInt(s) == s \in {"0", "1", "2"}
\* int(s)
IntOf(s) ==
    CASE s = "0" -> 0
      [] s = "1" -> 1
      [] s = "2" -> 2

\* str.strip(' \n') on the stored credential
Strip(s) == IF s = "olduser\n" THEN "olduser" ELSE s

(* Insertion-ordered dicts as sequences of <<key, value>>. *)
DictHas(d, k) == \E j \in 1..Len(d) : d[j][1] = k
DictSet(d, k, v) ==
    IF DictHas(d, k)
    THEN [j \in 1..Len(d) |-> IF d[j][1] = k THEN <<k, v>> ELSE d[j]]
    ELSE Append(d, <<k, v>>)
DictKeys(d) == {d[j][1] : j \in 1..Len(d)}

----------------------------------------------------------------------------
(* Properties of the skill object. *)

connected == bridge # NoBridge

\* a variant that takes only a missing setting for "no address supplied"
user_supplied_ip_missing == settings.ip = None

user_supplied_ip == settings.ip # ""

\* a variant that tests for None instead of ''
user_supplied_username_none == settings.username = None

user_supplied_username == settings.username # ""

\* self.verbose
verbose == settings.verbose

EmptyScenes == [k \in SceneKeys |-> << >>]

NoOp == [name |-> "none", result |-> "none", exc |-> "none", attempt |-> "none",
         discovery |-> "none", probe |-> "none", constructed |-> FALSE,
         registered |-> FALSE, attempts |-> 0, rejects |-> 0,
         issued |-> None, refresh |-> "none", before |-> FALSE,
         kind |-> "none", query |-> None, calls |-> << >>, call |-> "none",
         applied |-> 0, reconnects |-> 0, replays |-> 0,
         groups |-> << >>, scenes |-> << >>,
         percent |-> -1, scene |-> None, color |-> None, scene_id |-> None,
         connects |-> 0, target |-> -1, found |-> None]

\* the host's settings: '' stands for a setting left empty; verbose is off
\* unless set
Settings == [ip : {"", ConfiguredIp},
             username : {"", ConfiguredUser},
             default_group : {"Den", "2"},
             verbose : {FALSE}]

\* __init__ under the settings of a set, with or without a stored credential
Constructed(choices) ==
    /\ settings \in choices
    /\ file \in StoredFiles
    /\ username = IF settings.username = "" THEN None ELSE settings.username
    /\ ip = None
    /\ bridge = NoBridge
    /\ default_group = NoGroup
    /\ groups_to_ids_map = << >>
    /\ scenes_to_ids_map = EmptyScenes
    /\ pc = "loaded"
    /\ i = 0
    /\ ack = FALSE
    /\ spoken = {}
    /\ op = NoOp
    /\ refreshed = FALSE
    /\ bridges = 0

Init == Constructed(Settings)

----------------------------------------------------------------------------
(* The environment's answers. *)

\* upnpclient.discover() filtered on "Philips hue": an address, or None when
\* no device qualifies.  Not consulted when the address is configured.
DiscoveryChoices == IF user_supplied_ip THEN {None} ELSE {None} \cup DiscoveredIps

\* get(url).json(): no error, an error description, or a network failure.
ProbeOutcomes == {"ok", "unauthorized user", "method not available",
                  "ConnectionError", "socket.error:No route to host",
                  "socket.error:Connection refused"}
\* if self.username: (None is falsy, so there is no probe)
ProbeChoices(user) == IF user # None THEN ProbeOutcomes ELSE {"ok"}

\* Bridge(ip, username): with a username the constructor does no I/O; without
\* one it registers with the bridge, which issues a credential or refuses.
RegisterOutcomes == IssuedUsers \cup {"PhueRegistrationException", "ConnectionError"}
CtorChoices(user) == IF user = None THEN RegisterOutcomes ELSE {"ok"}

\* the exceptions of a failing bridge call
CallFailures == {"socket.error:Connection refused", "PhueRequestTimeout"}

\* The bridge calls of _update_bridge_data: the replies of get_group and
\* get_scene, or the call that fails (the lookup of the default group by
\* name, get_group or get_scene) and the exception it raises.
Updates ==
    {[groups |-> g, scenes |-> s, failAt |-> "none", exc |-> "ok"] :
        g \in GroupReports, s \in SceneReports}
    \cup {[groups |-> << >>, scenes |-> << >>, failAt |-> f, exc |-> e] :
        f \in (IF default_group = NoGroup /\ ~IsInt(settings.default_group)
               THEN {"default", "groups"} ELSE {"groups"}),
        e \in CallFailures}
    \cup {[groups |-> g, scenes |-> << >>, failAt |-> "scenes", exc |-> e] :
        g \in GroupReports, e \in CallFailures}
NoUpdate == [groups |-> << >>, scenes |-> << >>, failAt |-> "none", exc |-> "ok"]
UpdateChoices(runs) == IF runs THEN Updates ELSE {NoUpdate}

----------------------------------------------------------------------------
(* _attempt_connection *)

\* a variant that takes every error description for an unauthorized user
ProbeError_unauthorized(description) == "UnauthorizedUserException"

\* error = data.get('error'): the exception raised for an error description
ProbeError(description) ==
    IF description = "unauthorized user"
    THEN "UnauthorizedUserException"
    ELSE "Exception"

\* the exception a probe outcome ends in ("ok" when none)
ProbeException(probe) ==
    CASE probe = "ok" -> "ok"
      [] probe \in {"ConnectionError", "socket.error:No route to host",
                    "socket.error:Connection refused"} -> probe
      [] OTHER -> ProbeError(probe)

\* next(filter(...)) on no qualifying device
DiscoveryFailure == "StopIteration"

\* The attempt with self.username = user: the exception it raises ("ok" when
\* none), the address it leaves in self.ip, the Bridge in self.bridge (a new
\* object exactly when no exception is raised), the probe's answer and
\* whether upnpclient.discover() was called and found a bridge.
AttemptConnection(user, disc, probe, ctor) ==
    LET newip == IF user_supplied_ip THEN settings.ip ELSE disc
        probed == IF user # None THEN probe ELSE "none"
        discovery == IF user_supplied_ip THEN "none"
                     ELSE IF disc = None THEN "not found" ELSE "found"
    IN  IF ~user_supplied_ip /\ disc = None
        THEN [exc |-> DiscoveryFailure, ip |-> ip, bridge |-> bridge,
              probed |-> "none", discovery |-> discovery]
        ELSE IF user # None /\ ProbeException(probe) # "ok"
        THEN [exc |-> ProbeException(probe), ip |-> newip, bridge |-> bridge,
              probed |-> probed, discovery |-> discovery]
        ELSE IF user = None /\ ctor \notin IssuedUsers
        THEN [exc |-> ctor, ip |-> newip, bridge |-> bridge, probed |-> probed,
              discovery |-> discovery]
        ELSE [exc |-> "ok", ip |-> newip,
              bridge |-> [ip |-> newip,
                          username |-> IF user = None THEN ctor ELSE user],
              probed |-> probed, discovery |-> discovery]

----------------------------------------------------------------------------
(* _update_bridge_data, _set_default_group, _register_groups_and_scenes *)

RECURSIVE RegisterGroups(_, _)
RegisterGroups(map, groups) ==
    IF groups = << >> THEN map
    ELSE RegisterGroups(DictSet(map, Lower(Head(groups)[2]), Head(groups)[1]),
                        Tail(groups))

RECURSIVE RegisterScenes(_, _)
RegisterScenes(map, scenes) ==
    IF scenes = << >> THEN map
    ELSE LET scene == Head(scenes)
             group_id == IF scene.group # None THEN IntOf(scene.group) ELSE NoneKey
         IN  RegisterScenes(
                 [map EXCEPT ![group_id] = DictSet(@, Lower(scene.name), scene.id)],
                 Tail(scenes))

\* Group(bridge, identifier): an integer identifier is taken as the id; a name
\* is looked up in bridge.get_group() and LookupError raised when absent.
GroupByName(identifier, groups) ==
    IF \E j \in 1..Len(groups) : groups[j][2] = identifier
    THEN IntOf(groups[CHOOSE j \in 1..Len(groups) :
                        /\ groups[j][2] = identifier
                        /\ \A k \in 1..(j-1) : groups[k][2] # identifier][1])
    ELSE -1

SetDefaultGroup(identifier, groups) ==
    IF IsInt(identifier)
    THEN [group |-> Group(IntOf(identifier)), said |-> {}]
    ELSE IF GroupByName(identifier, groups) # -1
    THEN [group |-> Group(GroupByName(identifier, groups)), said |-> {}]
    ELSE [group |-> Group(0),
          said |-> {"could.not.find.group", "using.group.0"}]

\* if not self.default_group
DefaultGroupUnset == default_group = NoGroup

\* a variant that keeps the credential the session held
SessionUsername_stale(b) == username

\* self.username = self.bridge.username
SessionUsername(b) == b.username

\* a variant that leaves the stored file as it was
StoredUsername_kept(u) == file

\* conf_file.write(self.username) on the file 'username' opened with 'w'
StoredUsername(u) == u

\* the Group in self.default_group once self.bridge holds another object
Outdated(group, fresh) ==
    IF fresh /\ group # NoGroup THEN [group EXCEPT !.current = FALSE] ELSE group

\* _update_bridge_data with b in self.bridge (fresh: b is a new object): the
\* exception it raises ("ok" when none) and the values it leaves in the session.
UpdateBridgeData(b, fresh, upd) ==
    LET lookupFails == /\ DefaultGroupUnset
                       /\ ~IsInt(settings.default_group)
                       /\ upd.failAt = "default"
        groupsFail == upd.failAt = "groups"
        scenesFail == upd.failAt = "scenes"
        dg == IF DefaultGroupUnset /\ ~lookupFails
              THEN SetDefaultGroup(settings.default_group, upd.groups)
              ELSE [group |-> Outdated(default_group, fresh), said |-> {}]
        failed == lookupFails \/ groupsFail \/ scenesFail
    IN  [exc |-> IF failed THEN upd.exc ELSE "ok",
         username |-> SessionUsername(b),
         file |-> StoredUsername(SessionUsername(b)),
         default_group |-> dg.group,
         groups |-> IF lookupFails \/ groupsFail
                    THEN groups_to_ids_map
                    ELSE RegisterGroups(groups_to_ids_map, upd.groups),
         scenes |-> IF failed
                    THEN scenes_to_ids_map
                    ELSE RegisterScenes(scenes_to_ids_map, upd.scenes),
         said |-> dg.said]

----------------------------------------------------------------------------
(* initialize *)

\* except (PhueRegistrationException, DeviceNotFoundException,
\*         UnauthorizedUserException, ConnectionError, socket.error): pass
Swallowed == {"PhueRegistrationException", "DeviceNotFoundException",
              "UnauthorizedUserException", "ConnectionError",
              "socket.error:No route to host", "socket.error:Connection refused"}

\* the session after _update_bridge_data returned u
SessionAfterUpdate(u, fresh, upd) ==
    /\ username' = u.username
    /\ file' = u.file
    /\ default_group' = u.default_group
    /\ groups_to_ids_map' = u.groups
    /\ scenes_to_ids_map' = u.scenes
    /\ bridges' = IF fresh THEN bridges + 1 ELSE bridges
    /\ refreshed' = IF u.exc = "ok" THEN TRUE
                    ELSE IF fresh THEN FALSE ELSE refreshed

\* The startup operation.  With a stored credential it attempts a connection
\* and refreshes the session data, swallowing the listed exceptions; any other
\* exception leaves initialize before the intents are registered.
Initialize ==
    /\ pc = "loaded"
    /\ IF file # None
       THEN LET user == IF ~user_supplied_username THEN Strip(file) ELSE username
            IN  \E disc \in DiscoveryChoices, probe \in ProbeChoices(user),
                   ctor \in CtorChoices(user) :
                  LET a == AttemptConnection(user, disc, probe, ctor)
                  IN  \E upd \in UpdateChoices(a.exc = "ok") :
                        LET u == UpdateBridgeData(a.bridge, TRUE, upd)
                            exc == IF a.exc # "ok" THEN a.exc ELSE u.exc
                            escapes == exc # "ok" /\ exc \notin Swallowed
                        IN  /\ ip' = a.ip
                            /\ bridge' = a.bridge
                            /\ IF a.exc = "ok"
                               THEN SessionAfterUpdate(u, TRUE, upd)
                               ELSE /\ username' = user
                                    /\ UNCHANGED <<file, default_group,
                                                   groups_to_ids_map,
                                                   scenes_to_ids_map, refreshed,
                                                   bridges>>
                            /\ spoken' = IF a.exc = "ok" THEN u.said ELSE {}
                            /\ pc' = IF escapes THEN "dead" ELSE "idle"
                            /\ op' = [NoOp EXCEPT
                                        !.name = "initialize",
                                        !.result = IF escapes THEN "raised"
                                                   ELSE "returned",
                                        !.exc = IF escapes THEN exc ELSE "none",
                                        !.attempt = a.exc,
                                        !.probe = a.probed,
                                        !.constructed = (a.exc = "ok"),
                                        !.discovery = a.discovery,
                                        !.refresh = IF a.exc = "ok" THEN u.exc
                                                    ELSE "none",
                                        !.groups = upd.groups,
                                        !.scenes = upd.scenes]
       ELSE /\ pc' = "idle"
            /\ spoken' = {}
            /\ op' = [NoOp EXCEPT !.name = "initialize", !.result = "returned"]
            /\ UNCHANGED <<username, file, ip, bridge, default_group,
                           groups_to_ids_map, scenes_to_ids_map, refreshed,
                           bridges>>
    /\ UNCHANGED <<settings, i, ack>>

----------------------------------------------------------------------------
(* _connect_to_bridge and _register_with_bridge *)

\* The except clauses of _connect_to_bridge: what follows the attempt's
\* exception, and the dialogs spoken.
Handling(exc) ==
    CASE exc = "ok" -> [next |-> "continue", said |-> {}]
      [] exc = "DeviceNotFoundException" ->
            [next |-> "return False", said |-> {"bridge.not.found"}]
      [] exc = "ConnectionError" ->
            [next |-> "return False",
             said |-> {"failed.to.connect"}
                      \cup (IF user_supplied_ip THEN {"ip.in.config"} ELSE {})]
      [] exc = "socket.error:No route to host" ->
            [next |-> "return False", said |-> {"no.route"}]
      [] exc = "socket.error:Connection refused" ->
            [next |-> "return False", said |-> {"failed.to.connect"}]
      [] exc = "UnauthorizedUserException" ->
            IF user_supplied_username
            THEN [next |-> "return False", said |-> {"invalid.user"}]
            ELSE [next |-> "register", said |-> {}]
      [] exc = "PhueRegistrationException" ->
            [next |-> "register", said |-> {}]
      [] OTHER -> [next |-> "raise", said |-> {}]

\* The end of _connect_to_bridge, from "if not self.connected" on, with b in
\* self.bridge (fresh: a new object) and the address a in self.ip.
ConnectTail(b, fresh, a, acknowledge, said, opr) ==
    /\ ip' = a
    /\ bridge' = b
    /\ pc' = "idle"
    /\ ack' = FALSE
    /\ IF b = NoBridge
       THEN /\ spoken' = said
            /\ op' = [opr EXCEPT !.result = "False"]
            /\ UNCHANGED <<username, file, default_group, groups_to_ids_map,
                           scenes_to_ids_map, refreshed, bridges>>
       ELSE \E upd \in Updates :
              LET u == UpdateBridgeData(b, fresh, upd)
              IN  /\ SessionAfterUpdate(u, fresh, upd)
                  /\ spoken' = said \cup u.said
                         \cup (IF acknowledge THEN {"successfully.connected"}
                               ELSE {})
                  /\ op' = [opr EXCEPT
                              !.result = IF u.exc = "ok" THEN "True" ELSE "raised",
                              !.exc = IF u.exc = "ok" THEN "none" ELSE u.exc,
                              !.refresh = u.exc,
                              !.groups = upd.groups,
                              !.scenes = upd.scenes]

\* _connect_to_bridge(acknowledge) up to the registration loop, which it
\* enters on an unauthorized auto-managed credential or a refused registration.
ConnectToBridge ==
    /\ pc = "idle"
    /\ bridges < MaxBridges
    /\ \E acknowledge \in BOOLEAN, disc \in DiscoveryChoices,
          probe \in ProbeChoices(username), ctor \in CtorChoices(username) :
         LET a == AttemptConnection(username, disc, probe, ctor)
             h == Handling(a.exc)
             opr == [NoOp EXCEPT
                       !.name = "connect",
                       !.attempt = a.exc,
                       !.probe = a.probed,
                       !.constructed = (a.exc = "ok"),
                       !.before = connected,
                       !.discovery = a.discovery]
         IN  /\ CASE h.next = "continue" ->
                       /\ ConnectTail(a.bridge, TRUE, a.ip, acknowledge, {}, opr)
                       /\ UNCHANGED i
                  [] h.next = "register" ->
                       /\ ip' = a.ip
                       /\ pc' = "register"
                       /\ ack' = acknowledge
                       /\ i' = 0
                       /\ spoken' = {"connect.to.bridge"}
                       /\ op' = [opr EXCEPT !.registered = TRUE]
                       /\ UNCHANGED <<username, file, bridge, default_group,
                                      groups_to_ids_map, scenes_to_ids_map,
                                      refreshed, bridges>>
                  [] OTHER ->
                       /\ ip' = a.ip
                       /\ pc' = "idle"
                       /\ spoken' = h.said
                       /\ op' = [opr EXCEPT
                                   !.result = IF h.next = "raise" THEN "raised"
                                              ELSE "False",
                                   !.exc = IF h.next = "raise" THEN a.exc
                                           ELSE "none"]
                       /\ UNCHANGED <<username, file, bridge, default_group,
                                      groups_to_ids_map, scenes_to_ids_map,
                                      i, ack, refreshed, bridges>>
    /\ UNCHANGED settings

\* i after an iteration of the loop that ended in "continue"
NextI(n) == n

\* the loop goes on
LoopContinues(n) == n < RegistrationLimit

\* One pass of "while i < 30": sleep(1) and Bridge(self.ip), which the bridge
\* accepts, rejects (PhueRegistrationException: continue) or fails otherwise;
\* on leaving the loop, the rest of _register_with_bridge and of
\* _connect_to_bridge.
RegisterStep ==
    /\ pc = "register"
    /\ IF LoopContinues(i)
       THEN \E outcome \in RegisterOutcomes :
              CASE outcome = "PhueRegistrationException" ->
                     /\ op.attempts < MaxAttempts
                     /\ op' = [op EXCEPT !.attempts = @ + 1, !.rejects = @ + 1]
                     /\ i' = NextI(i)
                     /\ UNCHANGED <<username, file, ip, bridge, default_group,
                                    groups_to_ids_map, scenes_to_ids_map,
                                    pc, ack, spoken, refreshed, bridges>>
                [] outcome \in IssuedUsers ->
                     /\ ConnectTail([ip |-> ip, username |-> outcome],
                                    TRUE, ip, ack,
                                    spoken \cup {"successfully.registered"},
                                    [op EXCEPT !.attempts = @ + 1,
                                               !.constructed = TRUE,
                                               !.issued = outcome])
                     /\ UNCHANGED i
                [] OTHER ->
                     /\ pc' = "idle"
                     /\ ack' = FALSE
                     /\ op' = [op EXCEPT !.attempts = @ + 1,
                                         !.result = "raised", !.exc = outcome]
                     /\ UNCHANGED <<username, file, ip, bridge, default_group,
                                    groups_to_ids_map, scenes_to_ids_map,
                                    i, spoken, refreshed, bridges>>
       ELSE /\ ConnectTail(bridge, FALSE, ip, ack,
                           spoken \cup (IF connected
                                        THEN {"successfully.registered"}
                                        ELSE {"failed.to.register"}),
                           op)
            /\ UNCHANGED i
    /\ UNCHANGED settings

----------------------------------------------------------------------------
(* _find_fuzzy and _find_group *)

\* process.extractOne's score of a candidate name for a query (fuzz.WRatio
\* after the default processor), on the queries and names in use.
Confidence(query, name) ==
    CASE query = name -> 100
      [] query = "kitchen" /\ name = "den" -> 60
      [] query = "kitchen" /\ name = "relax" -> 17
      [] query = "kitchen" /\ name = "read" -> 26
      [] query = "kichen" /\ name = "kitchen" -> 92
      [] query = "kichen" /\ name = "den" -> 60
      [] query = "kichen" /\ name = "relax" -> 18
      [] query = "kichen" /\ name = "read" -> 26
      [] query = "garage" /\ name = "kitchen" -> 15
      [] query = "garage" /\ name = "den" -> 36
      [] query = "garage" /\ name = "relax" -> 18
      [] query = "garage" /\ name = "read" -> 45
      [] query = "den" /\ name = "kitchen" -> 60
      [] query = "den" /\ name = "relax" -> 30
      [] query = "den" /\ name = "read" -> 29
      [] query = "relax" /\ name = "kitchen" -> 17
      [] query = "relax" /\ name = "den" -> 30
      [] query = "relax" /\ name = "read" -> 67
      [] query = "relaks" /\ name = "kitchen" -> 15
      [] query = "relaks" /\ name = "den" -> 30
      [] query = "relaks" /\ name = "relax" -> 73
      [] query = "relaks" /\ name = "read" -> 68
      [] query = "disco" /\ name = "kitchen" -> 33
      [] query = "disco" /\ name = "den" -> 30
      [] query = "disco" /\ name = "relax" -> 0
      [] query = "disco" /\ name = "read" -> 22
      [] query = "read" /\ name = "kitchen" -> 26
      [] query = "read" /\ name = "den" -> 29
      [] query = "read" /\ name = "relax" -> 67
      [] OTHER -> 0

\* the first candidate of the best score, in the dict's order
BestMatch(dictionary, value) ==
    CHOOSE j \in 1..Len(dictionary) :
        /\ \A k \in 1..Len(dictionary) :
              Confidence(value, dictionary[k][1]) <= Confidence(value, dictionary[j][1])
        /\ \A k \in 1..(j-1) :
              Confidence(value, dictionary[k][1]) < Confidence(value, dictionary[j][1])

\* a variant that also rejects a confidence equal to the cutoff
Rejected_at_cutoff(confidence) == confidence <= ConfidenceCutoff

\* if confidence < 60: return None
Rejected(confidence) == confidence < ConfidenceCutoff

FindFuzzy(dictionary, value) ==
    IF dictionary = << >> THEN None
    ELSE LET best == dictionary[BestMatch(dictionary, value)]
         IN  IF Rejected(Confidence(value, best[1])) THEN None ELSE best[2]

FindGroup(group_name) ==
    LET group_id == FindFuzzy(groups_to_ids_map, group_name)
    IN  IF group_id # None
        THEN Group(IntOf(group_id))
        ELSE NoGroup

----------------------------------------------------------------------------
(* The registered command handlers: get_group around handle_*_intent *)

\* message.data.get('group')
GroupQueries == {None, "kitchen", "kichen", "garage"}
\* message.data.get('percent'): the number written before the '%', which
\* int(value.rstrip('%')) returns
Percents == {50}
\* message.data.get('scene')
SceneQueries == {"relax", "disco"}
\* message.data.get('color')
ColorQueries == {"red"}
\* the groups named with a brightness, a scene or a color
TargetQueries == {None, "kitchen"}

\* a bridge request returns, times out or finds no route
CallOutcomes == {"ok", "PhueRequestTimeout", "socket.error:No route to host"}

\* the handlers registered by initialize that set the group's power
PowerCommands == {"turn.on", "turn.off"}

\* the messages of the registered intents
Message(kind, group, percent, scene, color) ==
    [kind |-> kind, group |-> group, percent |-> percent, scene |-> scene,
     color |-> color]
PowerMessages(groups) ==
    {Message(kind, g, -1, None, None) : kind \in PowerCommands, g \in groups}
BrightnessMessages(groups, percents) ==
    {Message("set.lights", g, p, None, None) : g \in groups, p \in percents}
SceneMessages(groups, scenes) ==
    {Message("set.lights.scene", g, -1, n, None) : g \in groups, n \in scenes}
ColorMessages(groups, colors) ==
    {Message("set.lights.color", g, -1, None, c) : g \in groups, c \in colors}
Messages ==
    PowerMessages(GroupQueries)
    \cup BrightnessMessages(TargetQueries, Percents)
    \cup SceneMessages(TargetQueries, SceneQueries)
    \cup ColorMessages(TargetQueries, ColorQueries)

\* self.colors
ColorNames == {"red", "green", "blue", "pink", "violet", "yellow", "orange",
               "white"}
Colors(name) ==
    CASE name = "red"    -> <<65160, 254>>
      [] name = "green"  -> <<27975, 254>>
      [] name = "blue"   -> <<45908, 254>>
      [] name = "pink"   -> <<52673, 254>>
      [] name = "violet" -> <<48156, 254>>
      [] name = "yellow" -> <<10821, 254>>
      [] name = "orange" -> << 6308, 254>>
      [] name = "white"  -> <<41439,  81>>

\* group.lights: the ids of the group's lights, as the bridge reports them
GroupLights == <<1, 2>>

\* A state-changing request: the attribute set on the group or on one of its
\* lights (light 0: the group itself), and whether it goes through the Bridge
\* object now in self.bridge.
Call(group, light, attribute, to) ==
    [current |-> group.current, group |-> group.group_id, light |-> light,
     set |-> attribute, to |-> to]

\* a variant that rounds to the nearest step
Brightness_rounded(value) == (value * 254 + 50) \div 100

\* brightness = int(value / 100.0 * 254)
Brightness(value) == (value * 254) \div 100

\* a variant that looks among the unscoped scenes first
FindScene_unscoped_first(group_id, scene_name) ==
    LET scene_id == FindFuzzy(scenes_to_ids_map[NoneKey], scene_name)
    IN  IF scene_id = None
        THEN FindFuzzy(scenes_to_ids_map[group_id], scene_name)
        ELSE scene_id

\* scene_id = self._find_fuzzy(self.scenes_to_ids_map[group.group_id], ...)
\* if not scene_id: ... self.scenes_to_ids_map[None]
FindScene(group_id, scene_name) ==
    LET scene_id == FindFuzzy(scenes_to_ids_map[group_id], scene_name)
    IN  IF scene_id = None
        THEN FindFuzzy(scenes_to_ids_map[NoneKey], scene_name)
        ELSE scene_id

RECURSIVE LightCalls(_, _, _)
\* for light in group.lights: light.on = True; light.hue = hue;
\* light.saturation = sat
LightCalls(group, lights, color) ==
    IF lights = << >> THEN << >>
    ELSE << Call(group, Head(lights), "on", 1),
            Call(group, Head(lights), "hue", color[1]),
            Call(group, Head(lights), "sat", color[2]) >>
         \o LightCalls(group, Tail(lights), color)

\* What a handler does on its group when every bridge request is answered:
\* the exception it raises by itself, the dialogs it speaks before its first
\* request and after its last one, the state-changing requests it makes, in
\* order, whether a reading request (group.lights) comes first, and the scene
\* it activates.
Handler(msg, group) ==
    LET none == [exc |-> "none", before |-> {}, after |-> {}, calls |-> << >>,
                 reads |-> FALSE, scene_id |-> None]
    IN  CASE msg.kind = "turn.on" ->
               [none EXCEPT !.calls = << Call(group, 0, "on", 1) >>]
          [] msg.kind = "turn.off" ->
               [none EXCEPT !.calls = << Call(group, 0, "on", 0) >>]
          [] msg.kind = "set.lights" ->
               [none EXCEPT
                  !.calls = IF msg.percent = 0
                            THEN << Call(group, 0, "on", 0) >>
                            ELSE << Call(group, 0, "on", 1),
                                    Call(group, 0, "bri",
                                         Brightness(msg.percent)) >>,
                  !.after = IF verbose THEN {"set.brightness"} ELSE {}]
          [] msg.kind = "set.lights.scene" ->
               LET scene_id == FindScene(group.group_id, msg.scene)
               IN  IF scene_id # None
                   THEN [none EXCEPT
                           !.before = IF verbose THEN {"activate.scene"}
                                      ELSE {},
                           !.calls = << [current |-> TRUE,
                                         group |-> group.group_id,
                                         light |-> 0, set |-> "scene",
                                         to |-> 0] >>,
                           !.scene_id = scene_id]
                   ELSE [none EXCEPT !.before = {"scene.not.found"}]
          [] msg.kind = "set.lights.color" ->
               IF msg.color \in ColorNames
               THEN [none EXCEPT
                       !.reads = TRUE,
                       !.calls = LightCalls(group, GroupLights,
                                            Colors(msg.color))]
               ELSE [none EXCEPT !.exc = "KeyError"]

\* a variant that takes every lookup for a hit
NoTarget_never(group) == FALSE

\* if group is None
NoTarget(group) == group = NoGroup

\* What get_group's inner does around the handler f: it resolves the group,
\* calls f when there is one, and handles no exception of f; it neither tests
\* self.connected nor calls _connect_to_bridge (connects = 0).  The outcome
\* drawn for the bridge is that of the handler's first request; a request
\* that fails raises, and is the handler's last.
Command(msg, call) ==
    /\ pc = "idle"
    /\ \E group \in {IF msg.group = None THEN default_group
                     ELSE FindGroup(msg.group)} :
         LET opr == [NoOp EXCEPT !.name = "command", !.kind = msg.kind,
                                 !.query = msg.group, !.percent = msg.percent,
                                 !.scene = msg.scene, !.color = msg.color,
                                 !.before = connected,
                                 !.connects = 0,
                                 !.target = group.group_id]
         IN  IF NoTarget(group)
             THEN /\ spoken' = {"could.not.find.group"}
                  /\ op' = [opr EXCEPT !.result = "returned"]
             ELSE \E h \in {Handler(msg, group)} :
                  \E requests \in {h.reads \/ h.calls # << >>} :
                  \E fails \in {requests /\ call # "ok"} :
                    /\ spoken' = IF fails \/ h.exc # "none" THEN h.before
                                 ELSE h.before \cup h.after
                    /\ op' = [opr EXCEPT
                                !.calls = IF ~fails THEN h.calls
                                          ELSE IF h.reads THEN << >>
                                          ELSE << h.calls[1] >>,
                                !.call = IF requests THEN call ELSE "none",
                                !.scene_id = h.scene_id,
                                !.applied = 1,
                                !.result = IF fails \/ h.exc # "none"
                                           THEN "raised" ELSE "returned",
                                !.exc = IF h.exc # "none" THEN h.exc
                                        ELSE IF fails THEN call ELSE "none"]
    /\ UNCHANGED <<settings, file, username, ip, bridge, default_group,
                   groups_to_ids_map, scenes_to_ids_map, pc, i, ack,
                   refreshed, bridges>>

----------------------------------------------------------------------------
Next ==
    \/ Initialize
    \/ ConnectToBridge
    \/ RegisterStep
    \/ \E msg \in Messages, call \in CallOutcomes : Command(msg, call)

Spec == Init /\ [][Next]_vars

----------------------------------------------------------------------------
(* The brightness handler over every percentage, on the sessions a startup
   with a configured address and credential leaves. *)

BrightnessSettings == [ip : {ConfiguredIp},
                       username : {ConfiguredUser},
                       default_group : {"2"},
                       verbose : BOOLEAN]

BrightnessInit == Constructed(BrightnessSettings)

BrightnessNext ==
    \/ Initialize
    \/ \E msg \in BrightnessMessages({None}, 0..MaxPercent),
          call \in CallOutcomes : Command(msg, call)

BrightnessSpec == BrightnessInit /\ [][BrightnessNext]_vars

----------------------------------------------------------------------------
(* _find_fuzzy as a function of its arguments: the group cache of a connected
   session is drawn from the caches a get_group() reply can leave, and
   _find_fuzzy is applied to it and a query. *)

\* the groups a reply may hold
CandidateGroups == { <<"1", "Kitchen">>, <<"2", "Den">>, <<"3", "Relax">>,
                     <<"4", "Read">> }

\* the replies of at most MaxCandidates groups, in every order
CandidateReports ==
    UNION { {r \in [1..n -> CandidateGroups] :
                \A a, b \in 1..n : a # b => r[a] # r[b]} : n \in 0..MaxCandidates }

FuzzyQueries == {"kitchen", "kichen", "garage", "den", "relax", "relaks",
                 "disco", "read"}

FuzzyInit ==
    /\ settings = [ip |-> ConfiguredIp, username |-> ConfiguredUser,
                   default_group |-> "0", verbose |-> FALSE]
    /\ file = ConfiguredUser
    /\ username = ConfiguredUser
    /\ ip = ConfiguredIp
    /\ bridge = [ip |-> ConfiguredIp, username |-> ConfiguredUser]
    /\ default_group = Group(0)
    /\ \E r \in CandidateReports : groups_to_ids_map = RegisterGroups(<< >>, r)
    /\ scenes_to_ids_map = EmptyScenes
    /\ pc = "idle"
    /\ i = 0
    /\ ack = FALSE
    /\ spoken = {}
    /\ op = NoOp
    /\ refreshed = TRUE
    /\ bridges = 1

\* a call self._find_fuzzy(self.groups_to_ids_map, value)
FindFuzzyCall(value) ==
    /\ pc = "idle"
    /\ op' = [NoOp EXCEPT !.name = "find_fuzzy", !.query = value,
                          !.found = FindFuzzy(groups_to_ids_map, value)]
    /\ spoken' = {}
    /\ UNCHANGED <<settings, file, username, ip, bridge, default_group,
                   groups_to_ids_map, scenes_to_ids_map, pc, i, ack,
                   refreshed, bridges>>

FuzzyNext == \E value \in FuzzyQueries : FindFuzzyCall(value)

FuzzySpec == FuzzyInit /\ [][FuzzyNext]_vars

----------------------------------------------------------------------------
(* The claims. *)

\* a connect operation has returned or raised
ConnectDone == op.name = "connect" /\ pc = "idle"

\* the lower-cased names of a get_group() reply
ReportedGroupNames(groups) == {Lower(groups[j][2]) : j \in 1..Len(groups)}

\* the lower-cased names of the scenes of a get_scene() reply under a key
ReportedSceneNames(scenes, key) ==
    {Lower(scenes[j].name) : j \in
        {n \in 1..Len(scenes) :
            (IF scenes[n].group # None THEN IntOf(scenes[n].group) ELSE NoneKey) = key}}

\* C1: when the bridge rejects every registration attempt, the loop of
\* _register_with_bridge makes exactly 30 attempts and then ends, reporting
\* 'failed.to.register' with the session not connected: there is never a 31st
\* attempt, and 30 rejections are followed by the failure report.
C1_RegistrationGivesUpAfter30 ==
    op.name = "connect" =>
        /\ op.attempts <= RegistrationLimit
        /\ (pc = "idle" /\ op.rejects = RegistrationLimit =>
                /\ "failed.to.register" \in spoken
                /\ op.result = "False")

\* C2: when the bridge rejects the first k < 30 registration attempts and
\* accepts the next one, the loop stops after exactly k+1 attempts, the session
\* is connected and holds the credential the bridge issued on that attempt, and
\* the connect operation returns True (the bridge answering the data refresh
\* that follows the registration; it raises the refresh's exception otherwise).
C2_RegistrationSucceedsOnAttemptKPlus1 ==
    (ConnectDone /\ op.registered /\ op.issued # None
     /\ op.rejects < RegistrationLimit) =>
        /\ op.attempts = op.rejects + 1
        /\ connected
        /\ bridge.username = op.issued
        /\ username = op.issued
        /\ op.result = IF op.refresh = "ok" THEN "True" ELSE "raised"

\* C2's case: 29 rejections, then the bridge accepts and connect returns True.
C2_Witness ==
    /\ ConnectDone /\ op.registered
    /\ op.rejects = RegistrationLimit - 1
    /\ op.attempts = RegistrationLimit
    /\ op.issued \in IssuedUsers
    /\ op.result = "True"

\* C3: under auto-discovered addressing a command that fails with 'No route to
\* host' triggers exactly one reconnect attempt, and at most one replay.
C3_NoRouteReconnectsOnce ==
    (op.name = "command" /\ op.call = "socket.error:No route to host"
     /\ settings.ip = "") =>
        /\ op.reconnects = 1
        /\ op.replays <= 1

\* C4: under a configured address a command that fails with 'No route to
\* host' makes no reconnect attempt and no replay, is applied at most once,
\* and the error is reported to the user with 'no.route'.
C4_NoRouteReportedUnderConfiguredAddress ==
    (op.name = "command" /\ op.call = "socket.error:No route to host"
     /\ settings.ip # "") =>
        /\ op.reconnects = 0
        /\ op.replays = 0
        /\ op.applied <= 1
        /\ "no.route" \in spoken

\* C5: after every successful (re)connection the group map and the scene maps
\* hold exactly the lower-cased names the bridge reported at that connection.
C5_CachesRebuiltInFull ==
    (op.name \in {"connect", "initialize"} /\ pc = "idle" /\ op.refresh = "ok") =>
        /\ DictKeys(groups_to_ids_map) = ReportedGroupNames(op.groups)
        /\ \A key \in SceneKeys :
              DictKeys(scenes_to_ids_map[key]) = ReportedSceneNames(op.scenes, key)

\* C6: whenever a command handler runs on a connected session, the refresh of
\* the caches has run to completion for the connection in use.
C6_CommandsOnlyAfterRefresh ==
    (op.name = "command" /\ connected) => refreshed

\* C7: an 'unauthorized user' answer to the probe of a user-supplied
\* credential makes connect report 'invalid.user' and return False with no
\* registration attempt; the registration loop is entered only when the
\* credential is not user-supplied.
C7_UserSuppliedCredentialNeverRegisters ==
    /\ (op.name = "connect" /\ op.probe = "unauthorized user"
        /\ settings.username # "") =>
            /\ pc = "idle"
            /\ op.result = "False"
            /\ "invalid.user" \in spoken
            /\ ~op.registered
            /\ op.attempts = 0
    /\ (op.name = "connect" /\ (op.registered \/ op.attempts > 0)) =>
            settings.username = ""

\* C7's case: the probe of a configured credential was answered 'unauthorized
\* user' and connect returned False.
C7_Witness ==
    /\ ConnectDone
    /\ op.probe = "unauthorized user"
    /\ settings.username = ConfiguredUser
    /\ op.result = "False"
    /\ "invalid.user" \in spoken

\* C8: with no address configured, a discovery that finds no bridge makes
\* connect report 'bridge.not.found' and return False, no exception escaping
\* and no Bridge being constructed.
C8_DiscoveryFailureReported ==
    (op.name = "connect" /\ op.discovery = "not found") =>
        /\ op.result = "False"
        /\ op.exc = "none"
        /\ "bridge.not.found" \in spoken
        /\ ~op.constructed

\* C9: a probe answered with an error description other than 'unauthorized
\* user' is fatal: the exception leaves connect, and leaves initialize before
\* the intents are registered, no registration is attempted and no Bridge is
\* constructed by that attempt.
C9_UnknownProbeErrorPropagates ==
    (op.name \in {"connect", "initialize"}
     /\ op.probe = "method not available") =>
        /\ op.result = "raised"
        /\ op.exc = "Exception"
        /\ ~op.registered
        /\ op.attempts = 0
        /\ ~op.constructed
        /\ (~op.before => ~connected)
        /\ pc = IF op.name = "initialize" THEN "dead" ELSE "idle"

\* C9's case: connect raised on a probe answered 'method not available'.
C9_Witness ==
    /\ ConnectDone
    /\ op.probe = "method not available"
    /\ op.result = "raised"

\* C10: a request timeout while a command is applied is reported with
\* 'unable.to.perform.action'; no exception escapes, nothing is retried or
\* reconnected, and the session stays connected.
C10_TimeoutReportedNotRaised ==
    (op.name = "command" /\ op.call = "PhueRequestTimeout") =>
        /\ "unable.to.perform.action" \in spoken
        /\ op.exc = "none"
        /\ op.reconnects = 0
        /\ op.replays = 0
        /\ connected

\* C11: whenever the session is connected, the stored credential equals the
\* credential of the Bridge in the session and the credential in memory; every
\* operation that constructed a Bridge leaves all three equal.
C11_PersistedCredentialCurrent ==
    /\ connected =>
          /\ file = bridge.username
          /\ username = bridge.username
    /\ (op.name \in {"connect", "initialize"} /\ op.constructed
        /\ pc # "register") =>
          /\ connected
          /\ file = bridge.username

\* C11's case: a registration issued a credential where another one was
\* stored, and the stored one is now the issued one.
C11_Witness ==
    /\ ConnectDone /\ op.registered
    /\ op.issued \in IssuedUsers
    /\ bridge.username = op.issued
    /\ file = op.issued
    /\ username = op.issued

\* C12: with an address configured no connection attempt, at startup or by
\* connect, performs a discovery, and after every attempt the session's
\* address is the configured one, as is the address of the Bridge it made.
C12_ConfiguredAddressSkipsDiscovery ==
    (settings.ip # "" /\ op.name \in {"connect", "initialize"}) =>
        /\ op.discovery = "none"
        /\ op.attempt # "none" => ip = settings.ip
        /\ op.constructed /\ pc # "register" => bridge.ip = settings.ip

\* C12's case: a reconnect under a configured address has made a new Bridge.
C12_Witness ==
    /\ ConnectDone
    /\ settings.ip = ConfiguredIp
    /\ op.before
    /\ op.constructed
    /\ ip = ConfiguredIp
    /\ bridge.ip = ConfiguredIp

\* the ids of the names of a scene map that score at least the cutoff for a
\* scene name
MatchingSceneIds(dictionary, scene_name) ==
    {dictionary[j][2] : j \in
        {n \in 1..Len(dictionary) :
            Confidence(scene_name, dictionary[n][1]) >= ConfidenceCutoff}}

\* a scene handler has run on a target group
SceneCommandDone ==
    op.name = "command" /\ op.kind = "set.lights.scene" /\ op.applied = 1

\* C13: a scene command on a target group activates, on that group, a scene
\* scoped to the group when the name matches one; a global scene only when it
\* matches none scoped to the group; and when it matches neither, it makes no
\* request and reports 'scene.not.found'.
C13_SceneScopedBeforeGlobal ==
    SceneCommandDone =>
        LET scoped == MatchingSceneIds(scenes_to_ids_map[op.target], op.scene)
            global == MatchingSceneIds(scenes_to_ids_map[NoneKey], op.scene)
            activation == << [current |-> TRUE, group |-> op.target,
                              light |-> 0, set |-> "scene", to |-> 0] >>
        IN  /\ scoped # {} =>
                 /\ op.scene_id \in scoped
                 /\ op.calls = activation
            /\ (scoped = {} /\ global # {}) =>
                 /\ op.scene_id \in global
                 /\ op.calls = activation
            /\ (scoped = {} /\ global = {}) =>
                 /\ op.scene_id = None
                 /\ op.calls = << >>
                 /\ "scene.not.found" \in spoken
            /\ "scene.not.found" \in spoken => op.calls = << >>

\* C13's case: the name is that of a scene of the target group and of a global
\* scene with another id, and the group's scene is the one activated.
C13_Witness ==
    /\ SceneCommandDone
    /\ op.scene = "relax"
    /\ DictHas(scenes_to_ids_map[op.target], "relax")
    /\ DictHas(scenes_to_ids_map[NoneKey], "relax")
    /\ op.scene_id = "s1"
    /\ op.scene_id \notin MatchingSceneIds(scenes_to_ids_map[NoneKey], op.scene)
    /\ op.call = "ok"

\* a brightness handler has run on a target group
BrightnessCommandDone ==
    op.name = "command" /\ op.kind = "set.lights" /\ op.applied = 1

\* the requests of a brightness command: the attribute set and its value
Written == [j \in 1..Len(op.calls) |-> <<op.calls[j].set, op.calls[j].to>>]

\* C14 (as stated): with p = 0 the group is powered off and its brightness is
\* not written; with p in 1..100, the bridge answering, the group is powered
\* on and its brightness is set to p/100 x 254 rounded to the nearest integer,
\* a value in 1..254.
C14_BrightnessRounded ==
    BrightnessCommandDone =>
        /\ op.percent = 0 => Written = << <<"on", 0>> >>
        /\ (op.percent \in 1..100 /\ op.call = "ok") =>
              /\ Len(op.calls) = 2
              /\ Written[1] = <<"on", 1>>
              /\ Written[2][1] = "bri"
              /\ Written[2][2] \in 1..254
              /\ 100 * Written[2][2] - 254 * op.percent \in -50..50

\* C14 (amended): with p = 0 the group is powered off and its brightness is
\* not written; with p in 1..100, the bridge answering, the group is powered
\* on and its brightness is set to p/100 x 254 cut down to an integer, a value
\* in 2..254 (50 gives 127, 100 gives 254).
C14_BrightnessTruncated ==
    BrightnessCommandDone =>
        /\ op.percent = 0 => Written = << <<"on", 0>> >>
        /\ (op.percent \in 1..100 /\ op.call = "ok") =>
              /\ Len(op.calls) = 2
              /\ Written[1] = <<"on", 1>>
              /\ Written[2][1] = "bri"
              /\ Written[2][2] \in 2..254
              /\ 254 * op.percent - 100 * Written[2][2] \in 0..99
              /\ op.percent = 50 => Written[2][2] = 127
              /\ op.percent = 100 => Written[2][2] = 254

\* C14's case: 3% is written as 7, the integer below 7.62.
C14_Witness ==
    /\ BrightnessCommandDone
    /\ op.percent = 3
    /\ op.call = "ok"
    /\ Written = << <<"on", 1>>, <<"bri", 7>> >>

\* the confidences of the names of a mapping for a query
Confidences(dictionary, value) ==
    {Confidence(value, dictionary[j][1]) : j \in 1..Len(dictionary)}

\* the ids of the names of a mapping whose confidence is the highest
BestIds(dictionary, value) ==
    {dictionary[j][2] : j \in
        {n \in 1..Len(dictionary) :
            \A c \in Confidences(dictionary, value) :
                c <= Confidence(value, dictionary[n][1])}}

\* C15: _find_fuzzy returns the id mapped to a best-scoring name when that
\* name's confidence is at least 60, and None when the best confidence is
\* below 60 or the mapping is empty; a query equal to a name of the mapping
\* returns that name's id, and an id returned is a value of the mapping.
C15_FuzzyResolve ==
    op.name = "find_fuzzy" =>
        LET d == groups_to_ids_map
            q == op.query
        IN  /\ d = << >> => op.found = None
            /\ (d # << >> /\ \A c \in Confidences(d, q) : c < 60) =>
                  op.found = None
            /\ (\E c \in Confidences(d, q) : c >= 60) =>
                  op.found \in BestIds(d, q)
            /\ \A j \in 1..Len(d) : d[j][1] = q => op.found = d[j][2]
            /\ op.found # None => \E j \in 1..Len(d) : d[j][2] = op.found

\* C15's case: of three names the misspelt query's best one (92) is returned,
\* another name scoring exactly 60.
C15_Witness ==
    /\ op.name = "find_fuzzy"
    /\ op.query = "kichen"
    /\ Len(groups_to_ids_map) = 3
    /\ DictKeys(groups_to_ids_map) = {"den", "read", "kitchen"}
    /\ groups_to_ids_map[1][1] = "den"
    /\ op.found = "1"

\* C16: a command that arrives while the session is not connected makes one
\* connection attempt before the handler, and the handler is applied exactly
\* when the session is connected after it.
C16_CommandsConnectFirst ==
    (op.name = "command" /\ ~op.before) =>
        /\ op.connects = 1
        /\ (op.applied = 1) <=> connected

\* C17: when connect returns, it returns True exactly when the session is
\* connected, a reconnect alongside an earlier Bridge included.
C17_ConnectResultIsConnected ==
    (ConnectDone /\ op.result \in {"True", "False"}) =>
        ((op.result = "True") <=> connected)

\* C18: a command on a session that is not connected makes no request to the
\* bridge, whether it names a group or not: the handler is not applied.
C18_NoRequestWhileDisconnected ==
    (op.name = "command" /\ ~connected) =>
        /\ op.calls = << >>
        /\ op.call = "none"
        /\ op.applied = 0
        /\ op.scene_id = None

\* C18's case: a color command naming a group arrived before any connection,
\* and was answered with 'could.not.find.group'.
C18_Witness ==
    /\ op.name = "command"
    /\ ~connected
    /\ op.kind = "set.lights.color"
    /\ op.query = "kitchen"
    /\ op.calls = << >>
    /\ spoken = {"could.not.find.group"}

\* C19: after every operation that made a Bridge the default group is built
\* on that Bridge, and the requests of a command that names no group go
\* through the Bridge now in the session.
C19_DefaultGroupOnCurrentBridge ==
    /\ (op.name \in {"connect", "initialize"} /\ op.constructed
        /\ pc = "idle" /\ default_group # NoGroup) =>
            default_group.current
    /\ (op.name = "command" /\ op.query = None) =>
            \A j \in 1..Len(op.calls) : op.calls[j].current

====
